---- MODULE Spec2Model ----
(***************************************************************************)
(* A model of the blitzhttp router: the route table (static, params,       *)
(* wildcards, catchAll), the global middleware list, the compiled static   *)
(* dispatch function, registration (GET .. PATCH, ANY, Use) and dispatch   *)
(* (ServeHTTP), the route groups with their middleware slices (Group), and  *)
(* ServeHTTP step by step for the requests served at the same time.        *)
(*                                                                         *)
(* A path is a sequence of one-character strings.  A composed handler      *)
(* (http.Handler built by composeHandler) is the record                    *)
(*   [mws |-> the middleware layers, outermost first, h |-> the terminal   *)
(*    handler's id]                                                        *)
(* and h = 0 stands for a nil *routeHandler.                               *)
(***************************************************************************)
EXTENDS Integers, Sequences, FiniteSets, TLC

VARIABLES
    static,      \* Router.static:    map[string]*route
    params,      \* Router.params:    map[string]*route
    wildcards,   \* Router.wildcards: map[string]*route
    catchAll,    \* Router.catchAll:  *route (NilRoute when nil)
    globalMWs,   \* Router.globalMWs: []Middleware
    staticCode,  \* Router.staticCode # nil
    compiledOn,  \* history: the static table and the catch-all at the last
                 \* call of compileStatic
    groups,      \* the Group objects made so far, in the order of their making
    heap,        \* the backing arrays of the groups' middleware slices
    inflight,    \* per connection goroutine: where its ServeHTTP call is
    resp,        \* what the last ServeHTTP call did (NoResp: none since the
                 \* last registration)
    registered,  \* history: per registered slot, the arguments of the latest
                 \* registration call and whether Use was called since
    nRegs,       \* history: number of registration calls so far
    nUses        \* history: number of Use calls so far

vars == <<static, params, wildcards, catchAll, globalMWs, staticCode,
          compiledOn, groups, heap, inflight, resp, registered, nRegs, nUses>>

-----------------------------------------------------------------------------
(* Bounds of the model *)

MaxRegs == 2
MaxUses == 1
MaxMwRegs == 2
MaxMwUses == 2
MaxInflight == 2
MaxGroups == 3
MaxGroupRegs == 2
MaxGroupUses == 1
MaxConcRegs == 2
MaxConcUses == 1
MaxAnyRegs == 3
MaxAnyUses == 1
MaxTrimRegs == 2
MaxCaGroups == 3
MaxCaRegs == 2
MaxCaUses == 1
MaxStepRegs == 2
MaxStepUses == 1

-----------------------------------------------------------------------------
(* Program constants *)

mGet == 0
mPost == 1
mPut == 2
mDelete == 3
mPatch == 4
mAny == 5

StatusOK == 200
StatusNoContent == 204
StatusUnauthorized == 401
StatusNotFound == 404

AllowHeader == "GET,POST,PUT,DELETE,PATCH,OPTIONS"

-----------------------------------------------------------------------------
(* strings *)

RECURSIVE TrimLeft(_, _)
TrimLeft(s, c) ==
    IF s # <<>> /\ Head(s) = c THEN TrimLeft(Tail(s), c) ELSE s

RECURSIVE TrimRight(_, _)
TrimRight(s, c) ==
    IF s # <<>> /\ s[Len(s)] = c THEN TrimRight(SubSeq(s, 1, Len(s) - 1), c)
    ELSE s

\* strings.Trim with at most one character cut at each end
TrimOnce(s, c) ==
    LET l == IF s # <<>> /\ Head(s) = c THEN Tail(s) ELSE s
    IN  IF l # <<>> /\ l[Len(l)] = c THEN SubSeq(l, 1, Len(l) - 1) ELSE l

\* strings.Trim(s, cutset) for a one-character cutset
Trim(s, c) == TrimRight(TrimLeft(s, c), c)

\* strings.HasSuffix(s, suffix) for a one-character suffix
HasSuffix(s, c) == s # <<>> /\ s[Len(s)] = c

\* strings.TrimSuffix(s, suffix) for a one-character suffix
TrimSuffix(s, c) == IF HasSuffix(s, c) THEN SubSeq(s, 1, Len(s) - 1) ELSE s

\* strings.Contains(s, substr) for a one-character substr
Contains(s, c) == \E i \in 1..Len(s) : s[i] = c

-----------------------------------------------------------------------------
(* routes and handlers *)

NilHandler == [mws |-> <<>>, h |-> 0]

NilRoute == [handlers |-> [i \in mGet..mAny |-> NilHandler],
             isParam |-> FALSE, isWild |-> FALSE, nil |-> TRUE]

\* &route{}
NewRoute == [handlers |-> [i \in mGet..mAny |-> NilHandler],
             isParam |-> FALSE, isWild |-> FALSE, nil |-> FALSE]

\* a user handler (http.HandlerFunc) as an http.Handler
HandlerFunc(id) == [mws |-> <<>>, h |-> id]

\* mw(next): the handler that runs mw around next
Wrap(mw, next) == [next EXCEPT !.mws = <<mw>> \o @]

RECURSIVE composeHandlerInnerFirst(_, _)
\* composeHandler with its loop run from the first middleware to the last
composeHandlerInnerFirst(handler, mws) ==
    IF mws = <<>> THEN handler
    ELSE composeHandlerInnerFirst(Wrap(mws[1], handler), Tail(mws))

RECURSIVE composeHandler(_, _)
composeHandler(handler, mws) ==
    IF mws = <<>> THEN handler
    ELSE composeHandler(Wrap(mws[Len(mws)], handler),
                        SubSeq(mws, 1, Len(mws) - 1))

\* getHandler with any other method answered by the GET handler
getHandlerOtherAsGet(rt, method) ==
    CASE method = "GET" -> rt.handlers[mGet]
      [] method = "POST" -> rt.handlers[mPost]
      [] method = "PUT" -> rt.handlers[mPut]
      [] method = "DELETE" -> rt.handlers[mDelete]
      [] method = "PATCH" -> rt.handlers[mPatch]
      [] OTHER -> rt.handlers[mGet]

getHandler(rt, method) ==
    CASE method = "GET" -> rt.handlers[mGet]
      [] method = "POST" -> rt.handlers[mPost]
      [] method = "PUT" -> rt.handlers[mPut]
      [] method = "DELETE" -> rt.handlers[mDelete]
      [] method = "PATCH" -> rt.handlers[mPatch]
      [] OTHER -> NilHandler

-----------------------------------------------------------------------------
(* the router as a value: the operations below map a router to the router
   they leave behind *)

EmptyMap == [k \in {} |-> NilRoute]

Router == [static |-> static, params |-> params, wildcards |-> wildcards,
           catchAll |-> catchAll, globalMWs |-> globalMWs,
           staticCode |-> staticCode, compiledOn |-> compiledOn]

\* routes[path] = rt
Put(routes, path, rt) ==
    [k \in DOMAIN routes \cup {path} |-> IF k = path THEN rt ELSE routes[k]]

\* compileStatic without the test for an empty static table
compileStaticNoEmptyTest(r) ==
    [r EXCEPT !.staticCode = TRUE,
              !.compiledOn = [static |-> r.static, catchAll |-> r.catchAll]]

\* r.staticCode = nil when the static table is empty, else the closure
\* (StaticCode below), which reads r when it is called
compileStatic(r) ==
    LET now == [static |-> r.static, catchAll |-> r.catchAll]
    IN  IF DOMAIN r.static = {}
        THEN [r EXCEPT !.staticCode = FALSE, !.compiledOn = now]
        ELSE [r EXCEPT !.staticCode = TRUE, !.compiledOn = now]

\* rt.handlers[method] = &routeHandler{handler: composeHandler(handler, mws...)}
\* with mws = append(r.globalMWs, mws...)
SetHandler(r, rt, method, handler, mws) ==
    [rt EXCEPT !.handlers[method] =
                   composeHandler(handler, r.globalMWs \o mws)]

\* addRoute with the parameterized paths put into r.static
addRouteParamStatic(r, method, path0, handler, mws) ==
    LET trimmed == Trim(path0, "/")
        isWild == HasSuffix(trimmed, "*")
        isParam == Contains(trimmed, ":")
        path == IF isWild THEN TrimSuffix(trimmed, "*") ELSE trimmed
        routes == IF isWild THEN r.wildcards ELSE r.static
        rt0 == IF path \in DOMAIN routes THEN routes[path] ELSE NewRoute
        rt == SetHandler(r, [rt0 EXCEPT !.isParam = isParam, !.isWild = isWild],
                         method, handler, mws)
        r1 == IF isWild THEN [r EXCEPT !.wildcards = Put(routes, path, rt)]
              ELSE [r EXCEPT !.static = Put(routes, path, rt)]
    IN  compileStatic(r1)

\* addRoute without the test for an existing route: routes[path] = &route{}
addRouteNewRoute(r, method, path0, handler, mws) ==
    LET trimmed == Trim(path0, "/")
        isWild == HasSuffix(trimmed, "*")
        isParam == Contains(trimmed, ":")
        path == IF isWild THEN TrimSuffix(trimmed, "*") ELSE trimmed
        routes == CASE isWild -> r.wildcards
                    [] isParam -> r.params
                    [] OTHER -> r.static
        rt == SetHandler(r, [NewRoute EXCEPT !.isParam = isParam,
                                             !.isWild = isWild],
                         method, handler, mws)
        r1 == CASE isWild -> [r EXCEPT !.wildcards = Put(routes, path, rt)]
                [] isParam -> [r EXCEPT !.params = Put(routes, path, rt)]
                [] OTHER -> [r EXCEPT !.static = Put(routes, path, rt)]
    IN  compileStatic(r1)

addRoute(r, method, path0, handler, mws) ==
    LET trimmed == Trim(path0, "/")
        isWild == HasSuffix(trimmed, "*")
        isParam == Contains(trimmed, ":")
        path == IF isWild THEN TrimSuffix(trimmed, "*") ELSE trimmed
        routes == CASE isWild -> r.wildcards
                    [] isParam -> r.params
                    [] OTHER -> r.static
        rt0 == IF path \in DOMAIN routes THEN routes[path] ELSE NewRoute
        rt == SetHandler(r, [rt0 EXCEPT !.isParam = isParam, !.isWild = isWild],
                         method, handler, mws)
        r1 == CASE isWild -> [r EXCEPT !.wildcards = Put(routes, path, rt)]
                [] isParam -> [r EXCEPT !.params = Put(routes, path, rt)]
                [] OTHER -> [r EXCEPT !.static = Put(routes, path, rt)]
    IN  compileStatic(r1)

addCatchAll(r, handler, mws) ==
    LET rt0 == IF r.catchAll.nil THEN NewRoute ELSE r.catchAll
        all == r.globalMWs \o mws
    IN  [r EXCEPT !.catchAll =
            [rt0 EXCEPT !.handlers =
                [i \in mGet..mAny |->
                    IF i <= mPatch THEN composeHandler(handler, all)
                    ELSE rt0.handlers[i]]]]

RECURSIVE addRoutesBelowPatch(_, _, _, _, _)
\* the loop of ANY with i < mPatch as its test
addRoutesBelowPatch(r, from, path, handler, mws) ==
    IF from >= mPatch THEN r
    ELSE addRoutesBelowPatch(addRoute(r, from, path, handler, mws), from + 1,
                             path, handler, mws)

RECURSIVE addRoutes(_, _, _, _, _)
\* for i := from; i <= mPatch; i++ { r.addRoute(i, path, handler, mws...) }
addRoutes(r, from, path, handler, mws) ==
    IF from > mPatch THEN r
    ELSE addRoutes(addRoute(r, from, path, handler, mws), from + 1, path,
                   handler, mws)

\* Router.ANY
any(r, path, handler, mws) ==
    IF path = <<"*">> THEN addCatchAll(r, handler, mws)
    ELSE addRoutes(r, mGet, path, handler, mws)

\* every non-nil handler of rt wrapped in the global middlewares again
RecomposeRoute(rt, mws) ==
    [rt EXCEPT !.handlers =
        [i \in mGet..mAny |->
            IF rt.handlers[i] # NilHandler
            THEN composeHandler(rt.handlers[i], mws)
            ELSE rt.handlers[i]]]

RecomposeTable(routes, mws) ==
    [k \in DOMAIN routes |-> RecomposeRoute(routes[k], mws)]

\* recomposeHandlers without the recomposition
recomposeHandlersCompileOnly(r) == compileStatic(r)

recomposeHandlers(r) ==
    LET r1 == [r EXCEPT !.static = RecomposeTable(@, r.globalMWs),
                        !.params = RecomposeTable(@, r.globalMWs),
                        !.wildcards = RecomposeTable(@, r.globalMWs)]
        r2 == IF ~r1.catchAll.nil
              THEN [r1 EXCEPT !.catchAll = RecomposeRoute(@, r.globalMWs)]
              ELSE r1
    IN  compileStatic(r2)

\* Router.Use
use(r, mws) ==
    recomposeHandlers([r EXCEPT !.globalMWs = @ \o mws])

-----------------------------------------------------------------------------
(* serving *)

RECURSIVE ServeHandler(_, _)

\* what running a handler did: the middlewares that ran, outermost first, the
\* terminal handler that ran (0: none) and the status written
Ran(mw, out) == [out EXCEPT !.ran = <<mw>> \o @]

\* Logger: logs, then next.ServeHTTP(w, r)
Logger(next, req) == Ran("Logger", ServeHandler(next, req))

\* Auth without the return after the 401
AuthNoReturn(next, req) ==
    IF ~req.auth
    THEN [Ran("Auth", ServeHandler(next, req)) EXCEPT
              !.status = StatusUnauthorized]
    ELSE Ran("Auth", ServeHandler(next, req))

\* Auth: 401 and return when the Authorization header is empty, else
\* next.ServeHTTP(w, r)
Auth(next, req) ==
    IF ~req.auth
    THEN [ran |-> <<"Auth">>, term |-> 0, status |-> StatusUnauthorized]
    ELSE Ran("Auth", ServeHandler(next, req))

\* handler.ServeHTTP(w, req) of a composed handler
ServeHandler(handler, req) ==
    IF handler.mws = <<>>
    THEN [ran |-> <<>>, term |-> handler.h, status |-> StatusOK]
    ELSE LET next == [handler EXCEPT !.mws = Tail(@)]
         IN  CASE Head(handler.mws) = "Auth" -> Auth(next, req)
               [] OTHER -> Logger(next, req)

\* the response of a call of a route's composed handler
Served(via, handler, req, hasParams, path) ==
    LET out == ServeHandler(handler, req)
    IN  [via |-> via, req |-> req, status |-> out.status, allow |-> "",
         handler |-> handler, ran |-> out.ran, term |-> out.term,
         hasParams |-> hasParams, params |-> path]

\* http.NotFound(w, req)
NotFound(req) ==
    [via |-> "notFound", req |-> req, status |-> StatusNotFound, allow |-> "",
     handler |-> NilHandler, ran |-> <<>>, term |-> 0,
     hasParams |-> FALSE, params |-> <<>>]

\* the OPTIONS answer of ServeHTTP
Options(req) ==
    [via |-> "options", req |-> req, status |-> StatusNoContent,
     allow |-> AllowHeader, handler |-> NilHandler, ran |-> <<>>, term |-> 0,
     hasParams |-> FALSE, params |-> <<>>]

\* the closure with the catch-all match before the exact match
StaticCodeCatchAllFirst(r, req) ==
    LET path == Trim(req.path, "/")
        hit == path \in DOMAIN r.static
                  /\ getHandler(r.static[path], req.method) # NilHandler
        caught == ~r.catchAll.nil
                     /\ getHandler(r.catchAll, req.method) # NilHandler
    IN  IF caught
        THEN Served("catchAll", getHandler(r.catchAll, req.method), req,
                    TRUE, path)
        ELSE IF hit
        THEN Served("static", getHandler(r.static[path], req.method), req,
                    FALSE, <<>>)
        ELSE NotFound(req)

\* the closure with req.URL.Path, not path, given to the catch-all
StaticCodeRawParams(r, req) ==
    LET path == Trim(req.path, "/")
        hit == path \in DOMAIN r.static
                  /\ getHandler(r.static[path], req.method) # NilHandler
        caught == ~r.catchAll.nil
                     /\ getHandler(r.catchAll, req.method) # NilHandler
    IN  IF hit
        THEN Served("static", getHandler(r.static[path], req.method), req,
                    FALSE, <<>>)
        ELSE IF caught
        THEN Served("catchAll", getHandler(r.catchAll, req.method), req,
                    TRUE, req.path)
        ELSE NotFound(req)

\* the closure reading the tables as they were when compileStatic built it
StaticCodeAtCompile(r, req) ==
    LET path == Trim(req.path, "/")
        old == r.compiledOn
        hit == path \in DOMAIN old.static
                  /\ getHandler(old.static[path], req.method) # NilHandler
        caught == ~old.catchAll.nil
                     /\ getHandler(old.catchAll, req.method) # NilHandler
    IN  IF hit
        THEN Served("static", getHandler(old.static[path], req.method), req,
                    FALSE, <<>>)
        ELSE IF caught
        THEN Served("catchAll", getHandler(old.catchAll, req.method), req,
                    TRUE, path)
        ELSE NotFound(req)

\* the closure compileStatic builds; it reads the router when it is called
StaticCode(r, req) ==
    LET path == Trim(req.path, "/")
        hit == path \in DOMAIN r.static
                  /\ getHandler(r.static[path], req.method) # NilHandler
        caught == ~r.catchAll.nil
                     /\ getHandler(r.catchAll, req.method) # NilHandler
    IN  IF hit
        THEN Served("static", getHandler(r.static[path], req.method), req,
                    FALSE, <<>>)
        ELSE IF caught
        THEN Served("catchAll", getHandler(r.catchAll, req.method), req,
                    TRUE, path)
        ELSE NotFound(req)

\* the lookup of ServeHTTP with req.URL.Path, not path, looked up
UncompiledRawPath(r, req) ==
    LET path == Trim(req.path, "/")
    IN  IF req.path \in DOMAIN r.static
              /\ getHandler(r.static[req.path], req.method) # NilHandler
        THEN Served("static", getHandler(r.static[req.path], req.method), req,
                    FALSE, <<>>)
        ELSE IF ~r.catchAll.nil
              /\ getHandler(r.catchAll, req.method) # NilHandler
        THEN Served("catchAll", getHandler(r.catchAll, req.method), req,
                    TRUE, path)
        ELSE NotFound(req)

\* the lookup of ServeHTTP when there is no compiled closure: exact match,
\* catch-all match, not found (the parameterized and the wildcard match are
\* commented out in the source)
Uncompiled(r, req) ==
    LET path == Trim(req.path, "/")
    IN  IF path \in DOMAIN r.static
              /\ getHandler(r.static[path], req.method) # NilHandler
        THEN Served("static", getHandler(r.static[path], req.method), req,
                    FALSE, <<>>)
        ELSE IF ~r.catchAll.nil
              /\ getHandler(r.catchAll, req.method) # NilHandler
        THEN Served("catchAll", getHandler(r.catchAll, req.method), req,
                    TRUE, path)
        ELSE NotFound(req)

\* ServeHTTP without the OPTIONS answer
serveHTTPNoOptions(r, req) ==
    IF r.staticCode THEN StaticCode(r, req) ELSE Uncompiled(r, req)

\* Router.ServeHTTP
serveHTTP(r, req) ==
    IF req.method = "OPTIONS" THEN Options(req)
    ELSE IF r.staticCode THEN StaticCode(r, req)
    ELSE Uncompiled(r, req)

\* GetParams(r) in the handler that served the request
GetParams(rs) == IF rs.hasParams THEN rs.params ELSE <<>>

RECURSIVE Split(_, _)
\* strings.Split(s, sep) for a one-character sep
Split(s, sep) ==
    IF ~Contains(s, sep) THEN <<s>>
    ELSE LET i == CHOOSE j \in 1..Len(s) :
                      s[j] = sep /\ \A k \in 1..(j - 1) : s[k] # sep
         IN  <<SubSeq(s, 1, i - 1)>> \o Split(SubSeq(s, i + 1, Len(s)), sep)

RECURSIVE Join(_, _)
\* strings.Join(parts, sep)
Join(parts, sep) ==
    IF parts = <<>> THEN <<>>
    ELSE IF Len(parts) = 1 THEN parts[1]
    ELSE parts[1] \o <<sep>> \o Join(Tail(parts), sep)

\* matchParam(path, pattern): the matched path, or "" (p[0] of an empty
\* pattern segment, which panics in the source, is taken as no match)
matchParam(path, pattern) ==
    LET pParts == Split(pattern, "/")
        rParts == Split(path, "/")
    IN  IF Len(path) < Len(pattern) THEN <<>>
        ELSE IF pattern = path THEN <<>>
        ELSE IF Len(pParts) # Len(rParts) THEN <<>>
        ELSE IF \A i \in 1..Len(pParts) :
                    \/ pParts[i] = rParts[i]
                    \/ (pParts[i] # <<>> /\ pParts[i][1] = ":")
        THEN Join(rParts, "/")
        ELSE <<>>

\* the connection goroutines that may be inside ServeHTTP at once
Goroutines == 1..MaxInflight

NoResp ==
    [via |-> "none", req |-> [method |-> "", path |-> <<>>, auth |-> FALSE],
     status |-> 0, allow |-> "", handler |-> NilHandler, ran |-> <<>>,
     term |-> 0, hasParams |-> FALSE, params |-> <<>>]

\* a goroutine that is not inside ServeHTTP
Idle == [pc |-> "idle", req |-> NoResp.req, compiled |-> FALSE,
         out |-> NoResp, outs |-> <<>>]

Init ==
    /\ static = EmptyMap
    /\ params = EmptyMap
    /\ wildcards = EmptyMap
    /\ catchAll = NilRoute
    /\ globalMWs = <<>>
    /\ staticCode = FALSE
    /\ compiledOn = [static |-> EmptyMap, catchAll |-> NilRoute]
    /\ groups = <<>>
    /\ heap = <<>>
    /\ inflight = [i \in Goroutines |-> Idle]
    /\ resp = NoResp
    /\ registered = <<>>
    /\ nRegs = 0
    /\ nUses = 0


-----------------------------------------------------------------------------
(* the calls *)

\* the router the call leaves behind; the response of an earlier request is
\* no longer looked at
Install(r) ==
    /\ static' = r.static
    /\ params' = r.params
    /\ wildcards' = r.wildcards
    /\ catchAll' = r.catchAll
    /\ globalMWs' = r.globalMWs
    /\ staticCode' = r.staticCode
    /\ compiledOn' = r.compiledOn
    /\ resp' = NoResp

\* the handler passed to the next registration call: every call registers a
\* handler of its own, numbered in the order of the calls
NextHandler == nRegs + 1

Slot(kind, path, m) == [kind |-> kind, path |-> Trim(path, "/"), m |-> m]

\* history: the slots get the arguments of this call
Record(slots, mws) ==
    /\ registered' =
           [sl \in DOMAIN registered \cup slots |->
               IF sl \in slots
               THEN [h |-> NextHandler, mws |-> mws, fresh |-> TRUE]
               ELSE registered[sl]]
    /\ nRegs' = nRegs + 1
    /\ UNCHANGED nUses

Register(method, path, mws) ==
    /\ resp = NoResp
    /\ Install(addRoute(Router, method, path, HandlerFunc(NextHandler), mws))
    /\ Record({Slot("route", path, method)}, mws)
    /\ UNCHANGED <<groups, heap, inflight>>

GET(path, mws) == Register(mGet, path, mws)

POST(path, mws) == Register(mPost, path, mws)

PUT(path, mws) == Register(mPut, path, mws)

DELETE(path, mws) == Register(mDelete, path, mws)

PATCH(path, mws) == Register(mPatch, path, mws)

ANY(path, mws) ==
    /\ resp = NoResp
    /\ Install(any(Router, path, HandlerFunc(NextHandler), mws))
    /\ Record({Slot(IF path = <<"*">> THEN "catchAll" ELSE "route", path, m) :
                   m \in mGet..mPatch}, mws)
    /\ UNCHANGED <<groups, heap, inflight>>

Use(mws) ==
    /\ resp = NoResp
    /\ Install(use(Router, mws))
    /\ registered' = [sl \in DOMAIN registered |->
                          [registered[sl] EXCEPT !.fresh = FALSE]]
    /\ nUses' = nUses + 1
    /\ UNCHANGED <<nRegs, groups, heap, inflight>>

\* a request is served; resp holds what ServeHTTP did with it
ServeHTTP(req) ==
    /\ resp = NoResp
    /\ resp' = serveHTTP(Router, req)
    /\ UNCHANGED <<static, params, wildcards, catchAll, globalMWs, staticCode,
                   compiledOn, groups, heap, inflight, registered, nRegs,
                   nUses>>

\* ServeHTTP has returned: the response is out of the router's hands
Return ==
    /\ resp # NoResp
    /\ resp' = NoResp
    /\ UNCHANGED <<static, params, wildcards, catchAll, globalMWs, staticCode,
                   compiledOn, groups, heap, inflight, registered, nRegs,
                   nUses>>

-----------------------------------------------------------------------------
(* slices: a []Middleware is [arr |-> its backing array in the heap (0: it
   has none), len |-> its length]; its capacity is the length of the backing
   array, and an array element not yet written is "" *)

NilSlice == [arr |-> 0, len |-> 0]

\* cap(s)
Cap(hp, s) == IF s.arr = 0 THEN 0 ELSE Len(hp[s.arr])

\* the elements s[0], ..., s[len(s)-1]
Elems(hp, s) == IF s.arr = 0 THEN <<>> ELSE SubSeq(hp[s.arr], 1, s.len)

\* the slice a call gets for its parameter mws ...Middleware: nil when no
\* argument is passed, else a new array of just the arguments
Variadic(hp, elems) ==
    IF elems = <<>> THEN [heap |-> hp, slice |-> NilSlice]
    ELSE [heap |-> Append(hp, elems),
          slice |-> [arr |-> Len(hp) + 1, len |-> Len(elems)]]

\* the capacities of the allocator's size classes for 8-byte elements
SizeClasses == {1, 2, 3, 4, 6, 8, 10, 12, 14, 16}

\* the capacity of the array append allocates when the old one is too small:
\* twice the old capacity, or the new length when that is more, rounded up to
\* a size class (the rule of the Go runtime for slices of less than 256
\* elements)
GrowCap(oldCap, newLen) ==
    LET want == IF newLen > 2 * oldCap THEN newLen ELSE 2 * oldCap
    IN  CHOOSE c \in SizeClasses :
            c >= want /\ \A d \in SizeClasses : d >= want => c <= d

\* append(s, elems...): in the backing array of s when the capacity allows
\* it, else in a new array
append(hp, s, elems) ==
    LET n == s.len + Len(elems)
    IN  IF n <= Cap(hp, s)
        THEN IF elems = <<>> THEN [heap |-> hp, slice |-> s]
             ELSE [heap |-> [hp EXCEPT ![s.arr] =
                                [i \in 1..Len(hp[s.arr]) |->
                                    IF i > s.len /\ i <= n
                                    THEN elems[i - s.len]
                                    ELSE hp[s.arr][i]]],
                   slice |-> [s EXCEPT !.len = n]]
        ELSE LET c == GrowCap(Cap(hp, s), n)
                 arr == [i \in 1..c |->
                            IF i <= s.len THEN hp[s.arr][i]
                            ELSE IF i <= n THEN elems[i - s.len]
                            ELSE ""]
             IN  [heap |-> Append(hp, arr),
                  slice |-> [arr |-> Len(hp) + 1, len |-> n]]

-----------------------------------------------------------------------------
(* groups: a Group is [prefix, mws] and, as history, the prefixes and the
   middlewares passed to the Group calls that made it and its enclosing
   groups, outermost first *)

\* Group.addRoute: the router and the heap it leaves behind (the array that
\* append allocates is garbage when the call returns)
groupAddRoute(r, hp, grp, method, path, handler, mws) ==
    LET a == append(hp, grp.mws, mws)
    IN  [router |-> addRoute(r, method,
                             grp.prefix \o <<"/">> \o Trim(path, "/"),
                             handler, Elems(a.heap, a.slice)),
         heap |-> IF a.slice.arr = grp.mws.arr THEN a.heap ELSE hp]

\* Group.addCatchAll registering the wildcard route of the group's prefix
groupAddCatchAllScoped(r, hp, grp, handler, mws) ==
    LET a == append(hp, grp.mws, mws)
    IN  [router |-> addRoutes(r, mGet, grp.prefix \o <<"/", "*">>, handler,
                              Elems(a.heap, a.slice)),
         heap |-> IF a.slice.arr = grp.mws.arr THEN a.heap ELSE hp]

\* Group.addCatchAll
groupAddCatchAll(r, hp, grp, handler, mws) ==
    LET a == append(hp, grp.mws, mws)
    IN  [router |-> addCatchAll(r, handler, Elems(a.heap, a.slice)),
         heap |-> IF a.slice.arr = grp.mws.arr THEN a.heap ELSE hp]

RECURSIVE groupAddRoutes(_, _, _, _, _, _, _)
\* for i := from; i <= mPatch; i++ { g.addRoute(i, path, handler, mws...) }
groupAddRoutes(r, hp, grp, from, path, handler, mws) ==
    IF from > mPatch THEN [router |-> r, heap |-> hp]
    ELSE LET one == groupAddRoute(r, hp, grp, from, path, handler, mws)
         IN  groupAddRoutes(one.router, one.heap, grp, from + 1, path,
                            handler, mws)

\* Group.ANY
groupAny(r, hp, grp, path, handler, mws) ==
    IF path = <<"*">> THEN groupAddCatchAll(r, hp, grp, handler, mws)
    ELSE groupAddRoutes(r, hp, grp, mGet, path, handler, mws)

\* history: the path a route of the group is to be served at, the prefixes of
\* the enclosing groups and the route's path, each without its leading and
\* trailing slashes, joined by "/"
WantPath(grp, path) ==
    Join([i \in 1..(Len(grp.hPrefixes) + 1) |->
             IF i <= Len(grp.hPrefixes) THEN Trim(grp.hPrefixes[i], "/")
             ELSE Trim(path, "/")], "/")

\* Router.Group
RouterGroup(prefix, mws) ==
    /\ resp = NoResp
    /\ LET v == Variadic(heap, mws)
       IN  /\ heap' = v.heap
           /\ groups' = Append(groups, [prefix |-> Trim(prefix, "/"),
                                        mws |-> v.slice,
                                        hPrefixes |-> <<prefix>>,
                                        hMws |-> mws])
    /\ UNCHANGED <<static, params, wildcards, catchAll, globalMWs, staticCode,
                   compiledOn, inflight, resp, registered, nRegs, nUses>>

\* Group.Group
GroupGroup(g, prefix, mws) ==
    /\ resp = NoResp
    /\ LET a == append(heap, groups[g].mws, mws)
       IN  /\ heap' = a.heap
           /\ groups' = Append(groups,
                               [prefix |-> groups[g].prefix \o <<"/">>
                                               \o Trim(prefix, "/"),
                                mws |-> a.slice,
                                hPrefixes |-> Append(groups[g].hPrefixes, prefix),
                                hMws |-> groups[g].hMws \o mws])
    /\ UNCHANGED <<static, params, wildcards, catchAll, globalMWs, staticCode,
                   compiledOn, inflight, resp, registered, nRegs, nUses>>

GroupRegister(g, method, path, mws) ==
    /\ resp = NoResp
    /\ LET out == groupAddRoute(Router, heap, groups[g], method, path,
                                HandlerFunc(NextHandler), mws)
       IN  Install(out.router) /\ heap' = out.heap
    /\ Record({Slot("route", WantPath(groups[g], path), method)},
              groups[g].hMws \o mws)
    /\ UNCHANGED <<groups, inflight>>

GroupGET(g, path, mws) == GroupRegister(g, mGet, path, mws)

GroupPOST(g, path, mws) == GroupRegister(g, mPost, path, mws)

GroupPUT(g, path, mws) == GroupRegister(g, mPut, path, mws)

GroupDELETE(g, path, mws) == GroupRegister(g, mDelete, path, mws)

GroupPATCH(g, path, mws) == GroupRegister(g, mPatch, path, mws)

GroupANY(g, path, mws) ==
    /\ resp = NoResp
    /\ LET out == groupAny(Router, heap, groups[g], path,
                           HandlerFunc(NextHandler), mws)
       IN  Install(out.router) /\ heap' = out.heap
    /\ Record(IF path = <<"*">>
              THEN {Slot("catchAll", path, m) : m \in mGet..mPatch}
              ELSE {Slot("route", WantPath(groups[g], path), m) :
                        m \in mGet..mPatch},
              groups[g].hMws \o mws)
    /\ UNCHANGED <<groups, inflight>>

-----------------------------------------------------------------------------
(* ServeHTTP step by step, for the requests served at the same time: each
   goroutine reads r.staticCode, then runs the closure or the lookup, then
   returns *)

\* ServeHTTP is entered: OPTIONS is answered at once; else r.staticCode is
\* read
ServeBegin(i, req) ==
    /\ resp = NoResp
    /\ inflight[i].pc = "idle"
    /\ inflight' =
           [inflight EXCEPT ![i] =
               IF req.method = "OPTIONS"
               THEN [pc |-> "done", req |-> req, compiled |-> FALSE,
                     out |-> Options(req), outs |-> <<Options(req)>>]
               ELSE [pc |-> "lookup", req |-> req, compiled |-> staticCode,
                     out |-> NoResp, outs |-> <<>>]]
    /\ UNCHANGED <<static, params, wildcards, catchAll, globalMWs, staticCode,
                   compiledOn, groups, heap, resp, registered, nRegs, nUses>>

\* the lookup that keeps the catch-all matches in r.static
ServeLookupCaching(i) ==
    /\ inflight[i].pc = "lookup"
    /\ LET req == inflight[i].req
           out == IF inflight[i].compiled THEN StaticCode(Router, req)
                  ELSE Uncompiled(Router, req)
       IN  /\ inflight' = [inflight EXCEPT ![i].pc = "done", ![i].out = out,
                                        ![i].outs = <<out>>]
           /\ static' = IF out.via = "catchAll"
                        THEN Put(static, Trim(req.path, "/"), catchAll)
                        ELSE static
    /\ UNCHANGED <<params, wildcards, catchAll, globalMWs, staticCode,
                   compiledOn, groups, heap, resp, registered, nRegs, nUses>>

\* the closure, or the lookup of ServeHTTP, finds the handler and calls it
ServeLookup(i) ==
    /\ inflight[i].pc = "lookup"
    /\ LET req == inflight[i].req
           out == IF inflight[i].compiled THEN StaticCode(Router, req)
                  ELSE Uncompiled(Router, req)
       IN  inflight' = [inflight EXCEPT ![i].pc = "done", ![i].out = out,
                                        ![i].outs = <<out>>]
    /\ UNCHANGED <<static, params, wildcards, catchAll, globalMWs, staticCode,
                   compiledOn, groups, heap, resp, registered, nRegs, nUses>>

\* the exact match without the return after the handler's call
StepExactNoReturn(i) ==
    /\ inflight[i].pc = "lookup"
    /\ LET req == inflight[i].req
           path == Trim(req.path, "/")
           hit == path \in DOMAIN static
                     /\ getHandler(static[path], req.method) # NilHandler
           out == Served("static", getHandler(static[path], req.method), req,
                         FALSE, <<>>)
       IN  inflight' =
               IF hit
               THEN [inflight EXCEPT ![i].pc = "catchAll", ![i].out = out,
                                     ![i].outs = Append(@, out)]
               ELSE [inflight EXCEPT ![i].pc = "catchAll"]
    /\ UNCHANGED <<static, params, wildcards, catchAll, globalMWs, staticCode,
                   compiledOn, groups, heap, resp, registered, nRegs, nUses>>

\* the lookup one test at a time (the closure and ServeHTTP have the same
\* three).  The exact match: the handler of the route is called and
\* ServeHTTP returns, or the catch-all is tried
StepExact(i) ==
    /\ inflight[i].pc = "lookup"
    /\ LET req == inflight[i].req
           path == Trim(req.path, "/")
           hit == path \in DOMAIN static
                     /\ getHandler(static[path], req.method) # NilHandler
           out == Served("static", getHandler(static[path], req.method), req,
                         FALSE, <<>>)
       IN  inflight' =
               IF hit
               THEN [inflight EXCEPT ![i].pc = "done", ![i].out = out,
                                     ![i].outs = Append(@, out)]
               ELSE [inflight EXCEPT ![i].pc = "catchAll"]
    /\ UNCHANGED <<static, params, wildcards, catchAll, globalMWs, staticCode,
                   compiledOn, groups, heap, resp, registered, nRegs, nUses>>

\* the catch-all match: its handler is called with the path as params and
\* ServeHTTP returns, or the request is not found
StepCatchAll(i) ==
    /\ inflight[i].pc = "catchAll"
    /\ LET req == inflight[i].req
           path == Trim(req.path, "/")
           caught == ~catchAll.nil
                        /\ getHandler(catchAll, req.method) # NilHandler
           out == Served("catchAll", getHandler(catchAll, req.method), req,
                         TRUE, path)
       IN  inflight' =
               IF caught
               THEN [inflight EXCEPT ![i].pc = "done", ![i].out = out,
                                     ![i].outs = Append(@, out)]
               ELSE [inflight EXCEPT ![i].pc = "notFound"]
    /\ UNCHANGED <<static, params, wildcards, catchAll, globalMWs, staticCode,
                   compiledOn, groups, heap, resp, registered, nRegs, nUses>>

\* http.NotFound(w, req)
StepNotFound(i) ==
    /\ inflight[i].pc = "notFound"
    /\ LET out == NotFound(inflight[i].req)
       IN  inflight' = [inflight EXCEPT ![i].pc = "done", ![i].out = out,
                                        ![i].outs = Append(@, out)]
    /\ UNCHANGED <<static, params, wildcards, catchAll, globalMWs, staticCode,
                   compiledOn, groups, heap, resp, registered, nRegs, nUses>>

\* ServeHTTP returns
ServeReturn(i) ==
    /\ inflight[i].pc = "done"
    /\ inflight' = [inflight EXCEPT ![i] = Idle]
    /\ UNCHANGED <<static, params, wildcards, catchAll, globalMWs, staticCode,
                   compiledOn, groups, heap, resp, registered, nRegs, nUses>>

-----------------------------------------------------------------------------
(* inputs *)

ReqMethods == {"GET", "POST", "PUT", "DELETE", "PATCH", "OPTIONS", "HEAD"}

\* paths registered: /a, b/, /u/:i, /f/*
RegPaths == {<<"/", "a">>, <<"b", "/">>, <<"/", "u", "/", ":", "i">>,
             <<"/", "f", "/", "*">>}

\* paths requested: /a/, b, /u/12, /f/a
ReqPaths == {<<"/", "a", "/">>, <<"b">>, <<"/", "u", "/", "1", "2">>,
             <<"/", "f", "/", "a">>}

\* paths registered with ANY: /a and the catch-all token
AnyPaths == {<<"/", "a">>, <<"*">>}

\* the middleware lists passed to a registration call and to Use
RouteMws == {<<>>}

UseMws == {<<"Logger">>}

Requests == [method : ReqMethods, path : ReqPaths, auth : {TRUE}]

(* Spec: the routes of every kind under every method, with few middlewares *)

Next ==
    \/ \E p \in RegPaths, mws \in RouteMws : nRegs < MaxRegs /\ GET(p, mws)
    \/ \E p \in RegPaths, mws \in RouteMws : nRegs < MaxRegs /\ POST(p, mws)
    \/ \E p \in RegPaths, mws \in RouteMws : nRegs < MaxRegs /\ PUT(p, mws)
    \/ \E p \in RegPaths, mws \in RouteMws :
           nRegs < MaxRegs /\ DELETE(p, mws)
    \/ \E p \in RegPaths, mws \in RouteMws : nRegs < MaxRegs /\ PATCH(p, mws)
    \/ \E p \in AnyPaths, mws \in RouteMws : nRegs < MaxRegs /\ ANY(p, mws)
    \/ \E mws \in UseMws : nUses < MaxUses /\ Use(mws)
    \/ \E req \in Requests : ServeHTTP(req)
    \/ Return

Spec == Init /\ [][Next]_vars

(* SpecMW: one static route and the catch-all, under every list of the
   bundled middlewares without a repetition *)

MwArgs == {<<>>, <<"Logger">>, <<"Auth">>, <<"Logger", "Auth">>,
           <<"Auth", "Logger">>}

MwRequests == [method : {"GET", "POST"}, path : {<<"/", "a", "/">>, <<"b">>},
               auth : BOOLEAN]

NextMW ==
    \/ \E mws \in MwArgs : nRegs < MaxMwRegs /\ GET(<<"/", "a">>, mws)
    \/ \E mws \in MwArgs : nRegs < MaxMwRegs /\ ANY(<<"*">>, mws)
    \/ \E mws \in MwArgs : nUses < MaxMwUses /\ Use(mws)
    \/ \E req \in MwRequests : ServeHTTP(req)
    \/ Return

SpecMW == Init /\ [][NextMW]_vars

(* SpecGroup: groups and groups of groups with middlewares of their own, and
   routes registered on them *)

\* the prefix of a group: /g/
GroupPrefixes == {<<"/", "g", "/">>}

\* the path registered on a group: /r
GroupPaths == {<<"/", "r">>}

\* the middlewares a Group call is given, and a registration on a group
GroupMwArgs == {<<"Auth">>, <<"Logger", "Auth">>}

GroupRouteMws == {<<>>, <<"Logger">>}

\* requests for /g/r, /g/g/r/ and g/g/g/r
GroupRequests ==
    [method : {"GET", "POST"},
     path : {<<"/", "g", "/", "r">>, <<"/", "g", "/", "g", "/", "r", "/">>,
             <<"g", "/", "g", "/", "g", "/", "r">>},
     auth : {TRUE}]

GroupIds == 1..Len(groups)

NextGroup ==
    \/ \E p \in GroupPrefixes, mws \in GroupMwArgs :
           Len(groups) < MaxGroups /\ RouterGroup(p, mws)
    \/ \E g \in GroupIds, p \in GroupPrefixes, mws \in GroupMwArgs :
           Len(groups) < MaxGroups /\ GroupGroup(g, p, mws)
    \/ \E g \in GroupIds, p \in GroupPaths, mws \in GroupRouteMws :
           nRegs < MaxGroupRegs /\ GroupGET(g, p, mws)
    \/ \E g \in GroupIds, p \in GroupPaths, mws \in RouteMws :
           nRegs < MaxGroupRegs /\ GroupPOST(g, p, mws)
    \/ \E g \in GroupIds, p \in GroupPaths, mws \in RouteMws :
           nRegs < MaxGroupRegs /\ GroupPUT(g, p, mws)
    \/ \E g \in GroupIds, p \in GroupPaths, mws \in RouteMws :
           nRegs < MaxGroupRegs /\ GroupDELETE(g, p, mws)
    \/ \E g \in GroupIds, p \in GroupPaths, mws \in RouteMws :
           nRegs < MaxGroupRegs /\ GroupPATCH(g, p, mws)
    \/ \E g \in GroupIds, p \in AnyPaths, mws \in RouteMws :
           nRegs < MaxGroupRegs /\ GroupANY(g, p, mws)
    \/ \E mws \in UseMws : nUses < MaxGroupUses /\ Use(mws)
    \/ \E req \in GroupRequests : ServeHTTP(req)
    \/ Return

SpecGroup == Init /\ [][NextGroup]_vars

(* SpecConc: requests served at the same time by a router whose routes are
   registered while no request is being served *)

ConcRequests == [method : {"GET", "OPTIONS"},
                 path : {<<"/", "a", "/">>, <<"b">>}, auth : {TRUE}]

AllIdle == \A i \in Goroutines : inflight[i].pc = "idle"

NextConc ==
    \/ \E mws \in RouteMws :
           AllIdle /\ nRegs < MaxConcRegs /\ GET(<<"/", "a">>, mws)
    \/ \E mws \in RouteMws :
           AllIdle /\ nRegs < MaxConcRegs /\ ANY(<<"*">>, mws)
    \/ \E mws \in UseMws : AllIdle /\ nUses < MaxConcUses /\ Use(mws)
    \/ \E i \in Goroutines, req \in ConcRequests : ServeBegin(i, req)
    \/ \E i \in Goroutines : ServeLookup(i)
    \/ \E i \in Goroutines : ServeReturn(i)

SpecConc == Init /\ [][NextConc]_vars

(* SpecAny: one static path under GET and under ANY, the catch-all set and
   set again, and requests of a method with a handler, of a method that may
   have none and of a method the router does not know *)

AnyRequests == [method : {"GET", "PATCH", "HEAD"},
                path : {<<"/", "a", "/">>, <<"b">>}, auth : {TRUE}]

NextAny ==
    \/ \E mws \in RouteMws : nRegs < MaxAnyRegs /\ GET(<<"/", "a">>, mws)
    \/ \E p \in AnyPaths, mws \in RouteMws : nRegs < MaxAnyRegs /\ ANY(p, mws)
    \/ \E mws \in UseMws : nUses < MaxAnyUses /\ Use(mws)
    \/ \E req \in AnyRequests : ServeHTTP(req)
    \/ Return

SpecAny == Init /\ [][NextAny]_vars

(* SpecTrim: GET routes and GET requests under paths with no, one and two
   slashes at either end, the root path, and paths that differ inside *)

\* "", /, a, /a, /a/, //a//, a/b, /a//b/
TrimPaths == {<<>>, <<"/">>, <<"a">>, <<"/", "a">>, <<"/", "a", "/">>,
              <<"/", "/", "a", "/", "/">>, <<"a", "/", "b">>,
              <<"/", "a", "/", "/", "b", "/">>}

TrimRequests == [method : {"GET"}, path : TrimPaths, auth : {TRUE}]

NextTrim ==
    \/ \E p \in TrimPaths, mws \in RouteMws :
           nRegs < MaxTrimRegs /\ GET(p, mws)
    \/ \E req \in TrimRequests : ServeHTTP(req)
    \/ Return

SpecTrim == Init /\ [][NextTrim]_vars

(* SpecCatchAll: the catch-all registered on the router and on groups and
   groups of groups, beside one static route *)

CaGroupMws == {<<"Logger", "Auth">>}

CaSubMws == {<<"Auth">>}

CaRouteMws == {<<"Logger">>}

\* requests for the static route, for a path outside the prefix of the
\* groups and for a path under it
CaRequests == [method : {"GET"},
               path : {<<"/", "a", "/">>, <<"b">>, <<"/", "g", "/", "r">>},
               auth : {TRUE}]

NextCatchAll ==
    \/ \E p \in GroupPrefixes, mws \in CaGroupMws :
           Len(groups) < MaxCaGroups /\ RouterGroup(p, mws)
    \/ \E g \in GroupIds, p \in GroupPrefixes, mws \in CaSubMws :
           Len(groups) < MaxCaGroups /\ GroupGroup(g, p, mws)
    \/ \E g \in GroupIds, mws \in CaRouteMws :
           nRegs < MaxCaRegs /\ GroupANY(g, <<"*">>, mws)
    \/ \E mws \in RouteMws : nRegs < MaxCaRegs /\ ANY(<<"*">>, mws)
    \/ \E mws \in RouteMws : nRegs < MaxCaRegs /\ GET(<<"/", "a">>, mws)
    \/ \E mws \in UseMws : nUses < MaxCaUses /\ Use(mws)
    \/ \E req \in CaRequests : ServeHTTP(req)
    \/ Return

SpecCatchAll == Init /\ [][NextCatchAll]_vars

(* SpecSteps: the requests served one test of the lookup at a time *)

StepRequests == [method : {"GET", "POST", "OPTIONS", "HEAD"},
                 path : {<<"/", "a", "/">>}, auth : {TRUE}]

NextSteps ==
    \/ \E mws \in RouteMws :
           AllIdle /\ nRegs < MaxStepRegs /\ GET(<<"/", "a">>, mws)
    \/ \E mws \in RouteMws :
           AllIdle /\ nRegs < MaxStepRegs /\ ANY(<<"*">>, mws)
    \/ \E mws \in UseMws : AllIdle /\ nUses < MaxStepUses /\ Use(mws)
    \/ \E i \in Goroutines, req \in StepRequests : ServeBegin(i, req)
    \/ \E i \in Goroutines : StepExact(i)
    \/ \E i \in Goroutines : StepCatchAll(i)
    \/ \E i \in Goroutines : StepNotFound(i)
    \/ \E i \in Goroutines : ServeReturn(i)

SpecSteps == Init /\ [][NextSteps]_vars







-----------------------------------------------------------------------------
(* the claims *)

FiveMethods == {"GET", "POST", "PUT", "DELETE", "PATCH"}

MethodIndex(method) ==
    CASE method = "GET" -> mGet
      [] method = "POST" -> mPost
      [] method = "PUT" -> mPut
      [] method = "DELETE" -> mDelete
      [] method = "PATCH" -> mPatch
      [] OTHER -> mAny

\* a normalized path that is neither a wildcard nor a parameterized pattern
IsStaticPath(path) == ~HasSuffix(path, "*") /\ ~Contains(path, ":")

Served1 == resp.via # "none"

\* the slot a request is for, and whether a static handler was registered
\* for it
ReqSlot == Slot("route", resp.req.path, MethodIndex(resp.req.method))

HasStatic ==
    /\ resp.req.method \in FiveMethods
    /\ ReqSlot \in DOMAIN registered
    /\ IsStaticPath(ReqSlot.path)

CatchAllSlot == Slot("catchAll", <<"*">>, MethodIndex(resp.req.method))

HasCatchAll == \E sl \in DOMAIN registered : sl.kind = "catchAll"

\* C1: a request for a method and path with a registered static handler
\* invokes the handler of the latest registration for them, never the
\* catch-all, whether or not there is one.
C1_StaticWins ==
    (Served1 /\ HasStatic) =>
        /\ resp.via = "static"
        /\ resp.handler.h = registered[ReqSlot].h
        /\ resp.term = registered[ReqSlot].h
        /\ ~resp.hasParams

C1_Witness ==
    /\ Served1 /\ HasStatic /\ HasCatchAll
    /\ resp.term = registered[ReqSlot].h
    /\ resp.req.path # ReqSlot.path

C4_Options ==
    (Served1 /\ resp.req.method = "OPTIONS") =>
        /\ resp.status = StatusNoContent
        /\ resp.allow = AllowHeader
        /\ resp.handler = NilHandler
        /\ resp.ran = <<>>
        /\ resp.term = 0

C4_Witness ==
    /\ Served1 /\ resp.req.method = "OPTIONS"
    /\ HasCatchAll /\ globalMWs # <<>>
    /\ \E m \in mGet..mPatch :
           Slot("route", resp.req.path, m) \in DOMAIN registered
    /\ resp.status = StatusNoContent

\* the slot whose handler served the request
ServedSlot == IF resp.via = "static" THEN ReqSlot ELSE CatchAllSlot

ByRoute == resp.via \in {"static", "catchAll"}

\* C5: with the global middlewares added before the route is registered,
\* a request runs the global middlewares, then the route's own, then the
\* handler, each once, when none short-circuits.
C5_Order ==
    (ByRoute /\ resp.req.auth /\ registered[ServedSlot].fresh) =>
        /\ resp.ran = globalMWs \o registered[ServedSlot].mws
        /\ resp.term = registered[ServedSlot].h

C5_Witness ==
    /\ resp.via = "static" /\ resp.req.auth /\ registered[ServedSlot].fresh
    /\ globalMWs = <<"Logger", "Auth">>
    /\ registered[ServedSlot].mws = <<"Auth", "Logger">>
    /\ resp.ran = <<"Logger", "Auth", "Auth", "Logger">>
    /\ resp.term = registered[ServedSlot].h

\* C6: under every interleaving of Use and registrations, a request runs
\* the global middlewares in the order of their Use, each once, then the
\* route's own middlewares, then the handler.
C6_GlobalOnce ==
    (ByRoute /\ resp.req.auth) =>
        /\ resp.ran = globalMWs \o registered[ServedSlot].mws
        /\ resp.term = registered[ServedSlot].h

\* C7: a request to a route or a catch-all runs every global middleware,
\* also those added by a Use after its registration, before the route's own
\* middlewares and its handler, and the handler still runs and answers.
C7_Retroactive ==
    (ByRoute /\ resp.req.auth) =>
        LET own == registered[ServedSlot].mws
            n == Len(resp.ran)
        IN  /\ n >= Len(globalMWs) + Len(own)
            /\ SubSeq(resp.ran, 1, Len(globalMWs)) = globalMWs
            /\ SubSeq(resp.ran, n - Len(own) + 1, n) = own
            /\ resp.term = registered[ServedSlot].h
            /\ resp.status = StatusOK

\* the route was registered under no global middleware, and Use came after
C7_Witness ==
    /\ ByRoute /\ resp.req.auth /\ ~registered[ServedSlot].fresh
    /\ globalMWs # <<>> /\ registered[ServedSlot].mws # <<>>
    /\ resp.ran = globalMWs \o registered[ServedSlot].mws
    /\ resp.term = registered[ServedSlot].h

FirstAuth(chain) ==
    CHOOSE i \in 1..Len(chain) :
        chain[i] = "Auth" /\ \A j \in 1..(i - 1) : chain[j] # "Auth"

\* C8: when a middleware of the chain does not call its wrapped handler
\* (Auth without the Authorization header), the middlewares outside it have
\* run, and neither the ones inside it nor the handler run; the answer is
\* 401.  Otherwise the whole chain and the handler run.
C8_ShortCircuit ==
    ByRoute =>
        LET chain == resp.handler.mws
        IN  IF ~resp.req.auth /\ Contains(chain, "Auth")
            THEN /\ resp.ran = SubSeq(chain, 1, FirstAuth(chain))
                 /\ resp.term = 0
                 /\ resp.status = StatusUnauthorized
            ELSE /\ resp.ran = chain
                 /\ resp.term = resp.handler.h
                 /\ resp.status = StatusOK

\* Logger ran, Auth answered 401, and the middleware inside it did not run
C8_Witness ==
    /\ ByRoute /\ ~resp.req.auth
    /\ resp.ran = <<"Logger", "Auth">>
    /\ Len(resp.handler.mws) > 2
    /\ resp.term = 0 /\ resp.status = StatusUnauthorized

\* the table and the key a registration path goes to
PartitionOf(path) ==
    LET trimmed == Trim(path, "/")
    IN  CASE HasSuffix(trimmed, "*") -> "wildcards"
          [] Contains(trimmed, ":") -> "params"
          [] OTHER -> "static"

KeyOf(path) == TrimSuffix(Trim(path, "/"), "*")

Table(r, t) ==
    CASE t = "static" -> r.static
      [] t = "params" -> r.params
      [] OTHER -> r.wildcards

HandlerAt(r, t, k, i) ==
    IF k \in DOMAIN Table(r, t) THEN Table(r, t)[k].handlers[i] ELSE NilHandler

Keys(r) == DOMAIN r.static \cup DOMAIN r.params \cup DOMAIN r.wildcards

MethodName(m) ==
    CASE m = mGet -> "GET"
      [] m = mPost -> "POST"
      [] m = mPut -> "PUT"
      [] m = mDelete -> "DELETE"
      [] OTHER -> "PATCH"

ReplacesOnly(m, p) ==
    LET old == Router
        new == Router'
        t == PartitionOf(p)
        k == KeyOf(p)
        out == serveHTTP(new, [method |-> MethodName(m), path |-> p,
                               auth |-> TRUE])
    IN  /\ HandlerAt(new, t, k, m).h = NextHandler
        /\ \A tt \in {"static", "params", "wildcards"},
              kk \in Keys(old) \cup Keys(new), i \in mGet..mAny :
               <<tt, kk, i>> # <<t, k, m>> =>
                   HandlerAt(new, tt, kk, i) = HandlerAt(old, tt, kk, i)
        /\ new.catchAll = old.catchAll
        /\ t = "static" => (out.via = "static" /\ out.term = NextHandler)

C10_ParamRoute ==
    (Served1 /\ resp.req.method = "GET") =>
        \A sl \in DOMAIN registered :
            (/\ sl.kind = "route" /\ sl.m = mGet
             /\ PartitionOf(sl.path) = "params"
             /\ matchParam(Trim(resp.req.path, "/"), sl.path) # <<>>) =>
                /\ resp.term = registered[sl].h
                /\ GetParams(resp) = Trim(resp.req.path, "/")

\* strings.HasPrefix(s, prefix)
HasPrefix(s, prefix) ==
    Len(s) >= Len(prefix) /\ SubSeq(s, 1, Len(prefix)) = prefix

\* C11: a GET request whose path starts with the prefix of a registered
\* wildcard route (the registered path without its final '*') invokes that
\* route's handler, and GetParams gives it the rest of the path after the
\* prefix.
C11_WildcardRoute ==
    (Served1 /\ resp.req.method = "GET") =>
        \A sl \in DOMAIN registered :
            (/\ sl.kind = "route" /\ sl.m = mGet
             /\ PartitionOf(sl.path) = "wildcards"
             /\ HasPrefix(Trim(resp.req.path, "/"), KeyOf(sl.path))) =>
                /\ resp.term = registered[sl].h
                /\ GetParams(resp) =
                       SubSeq(Trim(resp.req.path, "/"), Len(KeyOf(sl.path)) + 1,
                              Len(Trim(resp.req.path, "/")))

\* the five slots of the path were registered by one call (one handler)
ByOneCall(kind, path) ==
    /\ \A m \in mGet..mPatch : Slot(kind, path, m) \in DOMAIN registered
    /\ \A m \in mGet..mPatch :
           registered[Slot(kind, path, m)].h = registered[Slot(kind, path, mGet)].h

\* C12: after ANY on a path other than "*", a request to the path under each
\* of the five methods is dispatched to the handler of the call, under one
\* and the same middleware chain.  ANY("*") adds no route to a table: it
\* gives the five slots of the one catch-all the handler of the call, in
\* place of the handler of an earlier catch-all.
C12_Any ==
    /\ \A sl \in DOMAIN registered :
           (sl.kind = "route" /\ IsStaticPath(sl.path)
                /\ ByOneCall("route", sl.path)) =>
               \A m \in mGet..mPatch :
                   LET out == serveHTTP(Router, [method |-> MethodName(m),
                                                 path |-> sl.path,
                                                 auth |-> TRUE])
                   IN  /\ out.via = "static"
                       /\ out.term = registered[sl].h
                       /\ out.handler = HandlerAt(Router, "static", sl.path, mGet)
    /\ catchAll.nil <=> ~HasCatchAll
    /\ HasCatchAll =>
           /\ ByOneCall("catchAll", <<"*">>)
           /\ \A m \in mGet..mPatch :
                  /\ catchAll.handlers[m].h =
                         registered[Slot("catchAll", <<"*">>, m)].h
                  /\ catchAll.handlers[m] = catchAll.handlers[mGet]
    /\ \A t \in {"static", "params", "wildcards"} :
           \A k \in DOMAIN Table(Router, t) :
               \E sl \in DOMAIN registered :
                   /\ sl.kind = "route"
                   /\ PartitionOf(sl.path) = t
                   /\ KeyOf(sl.path) = k

\* ANY on /a and ANY("*"): PATCH on the path is served by the handler of
\* ANY on /a, and the table has the one route
C12_Witness ==
    /\ resp.via = "static" /\ resp.req.method = "PATCH"
    /\ ByOneCall("route", resp.req.path)
    /\ resp.term = registered[ReqSlot].h
    /\ HasCatchAll /\ ByOneCall("catchAll", <<"*">>)
    /\ catchAll.handlers[mPatch].h # resp.term
    /\ Keys(Router) = {Trim(resp.req.path, "/")}

\* C13: a route registered on a group or on a group of a group is served
\* exactly at the prefixes of the enclosing groups and its own path, each
\* without its leading and trailing slashes, joined by "/"; a request to it
\* runs the global middlewares, then the middlewares of the enclosing groups
\* from the outermost to the innermost, then the middlewares of the
\* registration call, then the handler (the global middlewares being those
\* of the time of the registration).
C13_GroupRoute ==
    /\ \A k \in DOMAIN static :
           \E sl \in DOMAIN registered : sl.kind = "route" /\ sl.path = k
    /\ (Served1 /\ HasStatic) =>
           /\ resp.via = "static"
           /\ resp.term = registered[ReqSlot].h
    /\ (resp.via = "static" /\ resp.req.auth /\ registered[ReqSlot].fresh) =>
           resp.ran = globalMWs \o registered[ReqSlot].mws

\* C14: the middleware list of a group stays the one it was made with (the
\* lists of the enclosing groups, then its own), whatever groups are made
\* from and routes registered on the group it was made from afterwards, and
\* a route of the group has that list and the middlewares of its
\* registration call.
C14_Independent ==
    /\ \A g \in GroupIds : Elems(heap, groups[g].mws) = groups[g].hMws
    /\ (ByRoute /\ registered[ServedSlot].fresh) =>
           resp.handler.mws = globalMWs \o registered[ServedSlot].mws

\* C15: the compiled closure and the lookup of ServeHTTP without it give a
\* request other than OPTIONS the same answer (the same handler, the same
\* params, or 404), whatever the static table and the catch-all are.
C15_FastPathEquivalent ==
    (Served1 /\ resp.req.method # "OPTIONS") =>
        /\ StaticCode(Router, resp.req) = Uncompiled(Router, resp.req)
        /\ resp = Uncompiled(Router, resp.req)

\* the closure served the request, by the catch-all, under a path that is
\* not in its normal form
C15_Witness ==
    /\ Served1 /\ staticCode /\ resp.via = "catchAll"
    /\ resp.req.path # Trim(resp.req.path, "/")
    /\ resp = Uncompiled(Router, resp.req)
    /\ Trim(resp.req.path, "/") \in DOMAIN static

\* the handler the tables hold now for a request
CurrentHandler(req) ==
    LET path == Trim(req.path, "/")
        i == MethodIndex(req.method)
    IN  IF path \in DOMAIN static /\ static[path].handlers[i] # NilHandler
        THEN static[path].handlers[i]
        ELSE catchAll.handlers[i]

\* C16: a request served by the compiled closure gets the handler that the
\* static table and the catch-all hold at the time of the request, not the
\* one they held when the closure was compiled: a catch-all registered or
\* replaced since then, without a compilation, serves the requests with no
\* static handler.
C16_LiveView ==
    (Served1 /\ staticCode /\ resp.req.method \in FiveMethods) =>
        /\ resp.handler = CurrentHandler(resp.req)
        /\ (~HasStatic /\ HasCatchAll) =>
               /\ resp.via = "catchAll"
               /\ resp.term = registered[CatchAllSlot].h
        /\ HasStatic => resp.term = registered[ReqSlot].h

\* the catch-all was registered after the last compilation
C16_Witness ==
    /\ Served1 /\ staticCode /\ resp.via = "catchAll"
    /\ compiledOn.catchAll.nil /\ ~catchAll.nil
    /\ compiledOn.static = static
    /\ resp.term = registered[CatchAllSlot].h

C18_OtherMethod ==
    (Served1 /\ resp.req.method \notin FiveMethods \cup {"OPTIONS"}) =>
        /\ resp.via = "notFound"
        /\ resp.status = StatusNotFound
        /\ resp.handler = NilHandler
        /\ resp.ran = <<>>
        /\ resp.term = 0
        /\ ~resp.hasParams

\* HEAD on a path with a GET route, with a catch-all registered
C18_Witness ==
    /\ Served1 /\ resp.req.method = "HEAD" /\ HasCatchAll
    /\ Trim(resp.req.path, "/") \in DOMAIN static
    /\ static[Trim(resp.req.path, "/")].handlers[mGet] # NilHandler
    /\ resp.status = StatusNotFound

\* C20: the router has a compiled closure exactly when its static table is
\* not empty, and a router that has one keeps having one.
C20_FastPath ==
    /\ [](staticCode <=> DOMAIN static # {})
    /\ [][staticCode => staticCode']_vars

\* a static route, then the catch-all and Use: the closure is there; the
\* parameterized and wildcard routes alone give none
C20_Witness ==
    /\ staticCode /\ HasCatchAll /\ globalMWs # <<>>
    /\ Cardinality(DOMAIN static) = 1
    /\ compiledOn.catchAll = catchAll

\* C19: ServeHTTP writes nothing of the router: a step of a request leaves
\* the tables, the catch-all, the global middlewares and the compiled closure
\* as they are.  So with the routes registered while no request is served,
\* each of the requests served at the same time, whatever the order of their
\* steps, is answered as it is when served alone.
C19_ReadOnly ==
    /\ [](\A i \in Goroutines :
              inflight[i].pc = "done" =>
                  inflight[i].out = serveHTTP(Router, inflight[i].req))
    /\ [][inflight' # inflight =>
              UNCHANGED <<static, params, wildcards, catchAll, globalMWs,
                          staticCode>>]_vars

\* two requests inside ServeHTTP at once: one answered by the catch-all, the
\* other, for the static route, still in its lookup
C19_Witness ==
    /\ inflight[1].pc = "done" /\ inflight[1].out.via = "catchAll"
    /\ inflight[2].pc = "lookup" /\ inflight[2].compiled
    /\ inflight[2].req.path # inflight[1].req.path
    /\ inflight[1].out = serveHTTP(Router, inflight[1].req)
    /\ globalMWs # <<>>

\* a path without the slashes before its first and after its last character
\* that is not a slash
Strip(s) ==
    LET idx == {i \in 1..Len(s) : s[i] # "/"}
        lo == CHOOSE i \in idx : \A j \in idx : i <= j
        hi == CHOOSE i \in idx : \A j \in idx : j <= i
    IN  IF idx = {} THEN <<>> ELSE SubSeq(s, lo, hi)

\* C21: a static route registered under the path R serves a request for the
\* path Q exactly when R and Q are equal once the slashes at their two ends
\* are removed, however many there are; the root is "/" as well as "", and
\* the slashes inside a path count as they are.
C21_TrimInvariant ==
    [][nRegs' # nRegs =>
          \A p \in TrimPaths, mws \in RouteMws :
              GET(p, mws) =>
                  \A q \in TrimPaths :
                      LET out == serveHTTP(Router', [method |-> "GET",
                                                     path |-> q,
                                                     auth |-> TRUE])
                      IN  (out.via = "static" /\ out.term = NextHandler)
                              <=> Strip(p) = Strip(q)]_vars

\* the request //a// is served by the route of a, registered beside the
\* root route
C21_Witness ==
    /\ resp.via = "static"
    /\ resp.req.path = <<"/", "/", "a", "/", "/">>
    /\ DOMAIN static = {<<"a">>, <<>>}
    /\ resp.term = registered[ReqSlot].h

OneOutcome(o) ==
    \/ o = Options(o.req)
    \/ o = NotFound(o.req)
    \/ /\ o.via \in {"static", "catchAll"}
       /\ o.handler # NilHandler
       /\ o = Served(o.via, o.handler, o.req, o.hasParams, o.params)

\* C23: a call of ServeHTTP ends with exactly one outcome: the OPTIONS
\* answer, one call of one composed route handler (of the static route or
\* of the catch-all), or the 404 answer.  Nothing is written before it, no
\* second handler is called after it, the call is never stuck before it,
\* and it does not return without it.
C23_OneOutcome ==
    /\ [](\A i \in Goroutines :
              /\ inflight[i].pc = "done" =>
                     /\ Len(inflight[i].outs) = 1
                     /\ OneOutcome(inflight[i].outs[1])
                     /\ inflight[i].outs[1] =
                            serveHTTP(Router, inflight[i].req)
              /\ inflight[i].pc # "done" => inflight[i].outs = <<>>
              /\ inflight[i].pc \in {"lookup", "catchAll", "notFound"} =>
                     ENABLED (StepExact(i) \/ StepCatchAll(i)
                                  \/ StepNotFound(i)))
    /\ [][\A i \in Goroutines :
              (inflight[i].pc # "idle" /\ inflight'[i].pc = "idle") =>
                  Len(inflight[i].outs) = 1]_vars

\* with a catch-all registered, one request has been served by the static
\* route and by nothing else, and another, of a method the router does not
\* know, is past the catch-all
C23_Witness ==
    /\ inflight[1].pc = "done" /\ inflight[1].out.via = "static"
    /\ Len(inflight[1].outs) = 1
    /\ ~catchAll.nil
    /\ inflight[2].pc = "notFound" /\ inflight[2].req.method = "HEAD"

====
